---- MODULE Spec2Model ----
(***************************************************************************)
(* GraphAutoModel (autokeras/auto/auto_model.py): resolution of a declared *)
(* node/block topology (_build_network, _search_network, _add_hypermodel,  *)
(* _add_node), AutoModel.fit and GraphAutoModel.build.                     *)
(*                                                                         *)
(* Nodes and blocks are Python objects compared by reference.  A node is   *)
(* a number 1..NumNodes; a block is its index in the sequence `blocks`,    *)
(* which is the order in which the blocks were created.  Nodes are         *)
(* numbered by first appearance in the declaration (declared inputs,       *)
(* declared outputs, then each block's inputs and outputs): the program    *)
(* never looks at a node's name, so every topology is a renaming of one    *)
(* of these.                                                               *)
(***************************************************************************)
EXTENDS Integers, Sequences, FiniteSets, TLC

VARIABLES
    inputs,            \* self.inputs: declared input nodes, in order
    outputs,           \* self.outputs: declared output nodes, in order
    blocks,            \* the blocks: blocks[b].inputs, blocks[b].outputs
    pc,                \* "declared", "ready", or the error that ended __init__
    node_to_id,        \* self.node_to_id
    nodes,             \* self.nodes
    hypermodels,       \* self.hypermodels
    hypermodel_to_id,  \* self.hypermodel_to_id
    isNone,            \* the attributes among the four above that are None
    failed,            \* the block named by the missing-input error, 0 if none
    shape,             \* node.shape of every node
    output_shape,      \* hypermodel.output_shape of every block
    prev,              \* <<>>, or <<the resolution the previous run produced>>
    fitted,            \* fit has set the shapes and started the tuner
    built,             \* blocks whose build operation the last build(hp) invoked
    build_result       \* "none", "ok" or "key_error": how the last build(hp) ended

vars == <<inputs, outputs, blocks, pc, node_to_id, nodes, hypermodels,
          hypermodel_to_id, isNone, failed, shape, output_shape, prev,
          fitted, built, build_result>>

\* Bounds of the model: the number of distinct nodes, and the size of a
\* declaration (the summed lengths of self.inputs, self.outputs and every
\* block's inputs and outputs).
NumNodes == 4
MaxPorts == 7

\* Bounds of the arrays handed to fit: the number of samples and of columns.
Samples == 3
MaxColumns == 2

Nodes == 1..NumNodes

Range(s) == {s[i] : i \in DOMAIN s}

Injective(s) == \A i, j \in DOMAIN s : s[i] = s[j] => i = j

Max(a, b) == IF a >= b THEN a ELSE b

Min(a, b) == IF a <= b THEN a ELSE b

RECURSIVE SeqSum(_)
SeqSum(s) == IF s = <<>> THEN 0 ELSE Head(s) + SeqSum(Tail(s))

RECURSIVE SeqMax(_)
SeqMax(s) == IF s = <<>> THEN 0 ELSE Max(Head(s), SeqMax(Tail(s)))

\* Python None for a shape, and a shape tuple t.
None == <<>>

Some(t) == <<t>>

-----------------------------------------------------------------------------
(* The declared topologies.                                                *)

\* All sequences of positive lengths that sum to at most budget.
RECURSIVE Lengths(_)
Lengths(budget) ==
    {<<>>} \cup UNION { { <<p>> \o s : s \in Lengths(budget - p) } : p \in 1..budget }

\* <<|inputs|, |outputs|, |b1.inputs|, |b1.outputs|, ...>>
Signatures == { s \in Lengths(MaxPorts) : Len(s) >= 2 /\ Len(s) % 2 = 0 }

\* Sequences of length len in which a node appears only after all smaller ones.
RECURSIVE FirstAppearance(_)
FirstAppearance(len) ==
    IF len = 0 THEN {<<>>}
    ELSE UNION { { Append(s, v) : v \in 1..Min(NumNodes, SeqMax(s) + 1) }
                 : s \in FirstAppearance(len - 1) }

\* The k-th list of a declaration laid out flat with the lengths sig.
Segment(flat, sig, k) ==
    LET start == SeqSum(SubSeq(sig, 1, k - 1))
    IN  SubSeq(flat, start + 1, start + sig[k])

Declaration(flat, sig) ==
    [inputs  |-> Segment(flat, sig, 1),
     outputs |-> Segment(flat, sig, 2),
     blocks  |-> [b \in 1..((Len(sig) - 2) \div 2) |->
                    [inputs  |-> Segment(flat, sig, 2 * b + 1),
                     outputs |-> Segment(flat, sig, 2 * b + 2)]]]

\* No list names a node twice.
WellFormed(flat, sig) == \A k \in DOMAIN sig : Injective(Segment(flat, sig, k))

Blocks == DOMAIN blocks

-----------------------------------------------------------------------------
(* Node and block attributes.                                              *)

\* node.out_hypermodels: the blocks consuming the node, in creation order.
RECURSIVE BlocksWith(_, _, _)
BlocksWith(n, b, producing) ==
    IF b > Len(blocks) THEN <<>>
    ELSE LET ports == IF producing THEN blocks[b].outputs ELSE blocks[b].inputs
         IN  (IF n \in Range(ports) THEN <<b>> ELSE <<>>) \o BlocksWith(n, b + 1, producing)

out_hypermodels(n) == BlocksWith(n, 1, FALSE)

\* node.in_hypermodels: the blocks producing the node, in creation order.
in_hypermodels(n) == BlocksWith(n, 1, TRUE)

-----------------------------------------------------------------------------
(* _add_node, _search_network                                              *)

EmptyMap == [x \in {} |-> 0]

\* _add_node numbering from 1: the id is the size after the insertion.
AddNodeCountingFromOne(n2id, n) ==
    IF n \notin DOMAIN n2id THEN n2id @@ (n :> Cardinality(DOMAIN n2id) + 1) ELSE n2id

_add_node(n2id, n) ==
    IF n \notin DOMAIN n2id THEN n2id @@ (n :> Cardinality(DOMAIN n2id)) ELSE n2id

\* The output nodes the two nested loops of _search_network visit, in order.
RECURSIVE OutputsOf(_)
OutputsOf(hs) == IF hs = <<>> THEN <<>> ELSE blocks[Head(hs)].outputs \o OutputsOf(Tail(hs))

\* line 177 without its test: every visited node is kept.
RetainAlways(n2id, n, outputs_reached) == _add_node(n2id, n)

\* line 177: the node is kept when an output was reached.
Retain(n2id, n, outputs_reached) == IF outputs_reached THEN _add_node(n2id, n) ELSE n2id

\* line 170 without its test: no edge is taken to close a cycle.
ClosesCycleNever(output_node, in_stack_nodes) == FALSE

\* line 170: the edge closes a cycle.
ClosesCycle(output_node, in_stack_nodes) == output_node \in in_stack_nodes

\* st = [node_to_id, visited_nodes, in_stack_nodes, cycle]; cycle is the raise
\* at line 171, which unwinds every frame.
RECURSIVE _search_network(_, _), SearchLoop(_, _, _, _)
_search_network(input_node, st) ==
    LET st1 == [st EXCEPT !.visited_nodes = @ \cup {input_node},
                          !.in_stack_nodes = @ \cup {input_node}]
        r == SearchLoop(OutputsOf(out_hypermodels(input_node)), 1, st1,
                        input_node \in Range(outputs))
    IN  IF r.st.cycle THEN r.st
        ELSE [r.st EXCEPT !.node_to_id = Retain(@, input_node, r.outputs_reached),
                          !.in_stack_nodes = @ \ {input_node}]

SearchLoop(succ, i, st, outputs_reached) ==
    IF i > Len(succ) THEN [st |-> st, outputs_reached |-> outputs_reached]
    ELSE LET output_node == succ[i] IN
         IF ClosesCycle(output_node, st.in_stack_nodes)
         THEN [st |-> [st EXCEPT !.cycle = TRUE], outputs_reached |-> outputs_reached]
         ELSE LET st2 == IF output_node \notin st.visited_nodes
                         THEN _search_network(output_node, st) ELSE st
              IN  IF st2.cycle THEN [st |-> st2, outputs_reached |-> outputs_reached]
                  ELSE SearchLoop(succ, i + 1, st2,
                                  outputs_reached \/ output_node \in DOMAIN st2.node_to_id)

\* lines 128-129: one search per declared input, each with fresh sets.
RECURSIVE SearchInputs(_, _)
SearchInputs(i, n2id) ==
    IF i > Len(inputs) THEN [node_to_id |-> n2id, cycle |-> FALSE]
    ELSE LET st == _search_network(inputs[i],
                       [node_to_id |-> n2id, visited_nodes |-> {},
                        in_stack_nodes |-> {}, cycle |-> FALSE])
         IN  IF st.cycle THEN [node_to_id |-> st.node_to_id, cycle |-> TRUE]
             ELSE SearchInputs(i + 1, st.node_to_id)

\* line 130: the keys of node_to_id sorted by id.
RECURSIVE SortById(_, _)
SortById(S, n2id) ==
    IF S = {} THEN <<>>
    ELSE LET n == CHOOSE x \in S : \A y \in S : n2id[x] <= n2id[y]
         IN  <<n>> \o SortById(S \ {n}, n2id)

SortedNodes(n2id) == SortById(DOMAIN n2id, n2id)

\* lines 132-134 looping over self.inputs only.
ConnectedInputsOnly(n2id) == \A i \in DOMAIN inputs : inputs[i] \in DOMAIN n2id

\* lines 132-134
Connected(n2id) == \A i \in DOMAIN (inputs \o outputs) : (inputs \o outputs)[i] \in DOMAIN n2id

-----------------------------------------------------------------------------
(* _add_hypermodel and the breadth-first loop of _build_network            *)

RECURSIVE AddNodes(_, _)
AddNodes(n2id, ns) == IF ns = <<>> THEN n2id ELSE AddNodes(_add_node(n2id, Head(ns)), Tail(ns))

\* lines 189-191 looking at the first input of the block only.
MissingFirstInput(n2id, hypermodel) == blocks[hypermodel].inputs[1] \notin DOMAIN n2id

\* lines 189-191: some input of the block carries no identifier.
MissingInput(n2id, hypermodel) ==
    \E i \in DOMAIN blocks[hypermodel].inputs : blocks[hypermodel].inputs[i] \notin DOMAIN n2id

\* q = [node_to_id, hypermodels, hypermodel_to_id, visited_nodes, queue, failed];
\* failed is the block the raise at line 191 names, 0 while nothing was raised.
_add_hypermodel(q, hypermodel) ==
    LET isNew == hypermodel \notin Range(q.hypermodels)
        n2id  == AddNodes(q.node_to_id, blocks[hypermodel].outputs)
    IN  [q EXCEPT !.hypermodels = IF isNew THEN Append(@, hypermodel) ELSE @,
                  !.hypermodel_to_id = IF isNew THEN @ @@ (hypermodel :> Len(q.hypermodels)) ELSE @,
                  !.node_to_id = n2id,
                  !.failed = IF MissingInput(n2id, hypermodel) THEN hypermodel ELSE 0]

\* line 148: at least one output node of the block is in node_to_id.
Interested(n2id, hypermodel) ==
    \E i \in DOMAIN blocks[hypermodel].outputs : blocks[hypermodel].outputs[i] \in DOMAIN n2id

\* lines 151-155
RECURSIVE EnqueueOutputs(_, _)
EnqueueOutputs(q, ns) ==
    IF ns = <<>> THEN q
    ELSE LET output_node == Head(ns) IN
         IF output_node \notin q.visited_nodes /\ output_node \in DOMAIN q.node_to_id
         THEN EnqueueOutputs([q EXCEPT !.visited_nodes = @ \cup {output_node},
                                       !.queue = Append(@, output_node)], Tail(ns))
         ELSE EnqueueOutputs(q, Tail(ns))

\* lines 146-155 for one dequeued node
RECURSIVE BlockLoop(_, _)
BlockLoop(q, hs) ==
    IF hs = <<>> THEN q
    ELSE IF ~Interested(q.node_to_id, Head(hs)) THEN BlockLoop(q, Tail(hs))
    ELSE LET q1 == _add_hypermodel(q, Head(hs)) IN
         IF q1.failed # 0 THEN q1
         ELSE BlockLoop(EnqueueOutputs(q1, blocks[Head(hs)].outputs), Tail(hs))

\* lines 144-155
RECURSIVE QueueLoop(_)
QueueLoop(q) ==
    IF q.queue = <<>> \/ q.failed # 0 THEN q
    ELSE QueueLoop(BlockLoop([q EXCEPT !.queue = Tail(@)], out_hypermodels(Head(q.queue))))

\* lines 137-143: the state the breadth-first loop starts from.
NewHypermodels(old) == <<>>

BfsStart(n2id, oldHypermodels) ==
    [node_to_id |-> n2id, hypermodels |-> NewHypermodels(oldHypermodels),
     hypermodel_to_id |-> EmptyMap,
     visited_nodes |-> Range(inputs), queue |-> inputs, failed |-> 0]

\* lines 156-158: os = [output_shape, index_error]
RECURSIVE CacheShapes(_, _)
CacheShapes(os, i) ==
    IF i > Len(outputs) THEN os
    ELSE IF in_hypermodels(outputs[i]) = <<>> THEN [os EXCEPT !.index_error = TRUE]
    ELSE CacheShapes([os EXCEPT !.output_shape[in_hypermodels(outputs[i])[1]] = shape[outputs[i]]],
                     i + 1)

\* line 125 left out: the mapping of the previous run is kept.
KeepNodeToId(old) == old

\* line 125
NewNodeToId(old) == EmptyMap

\* _build_network as a whole: the attributes it leaves and how it ended.
_build_network ==
    LET s == SearchInputs(1, NewNodeToId(node_to_id)) IN
    IF s.cycle
    THEN [pc |-> "cycle", node_to_id |-> s.node_to_id, nodes |-> nodes,
          hypermodels |-> hypermodels, hypermodel_to_id |-> hypermodel_to_id,
          isNone |-> isNone \ {"node_to_id"}, failed |-> 0, output_shape |-> output_shape]
    ELSE IF ~Connected(s.node_to_id)
    THEN [pc |-> "disconnected", node_to_id |-> s.node_to_id, nodes |-> SortedNodes(s.node_to_id),
          hypermodels |-> hypermodels, hypermodel_to_id |-> hypermodel_to_id,
          isNone |-> isNone \ {"node_to_id", "nodes"}, failed |-> 0,
          output_shape |-> output_shape]
    ELSE LET q  == QueueLoop(BfsStart(s.node_to_id, hypermodels))
             os == CacheShapes([output_shape |-> output_shape, index_error |-> FALSE], 1)
             ok == q.failed = 0
         IN  [pc |-> IF ~ok THEN "missing_input"
                     ELSE IF os.index_error THEN "index_error" ELSE "ready",
              node_to_id |-> q.node_to_id, nodes |-> SortedNodes(s.node_to_id),
              hypermodels |-> q.hypermodels, hypermodel_to_id |-> q.hypermodel_to_id,
              isNone |-> {}, failed |-> q.failed,
              output_shape |-> IF ok THEN os.output_shape ELSE output_shape]

Resolution == [node_to_id |-> node_to_id, nodes |-> nodes,
               hypermodels |-> hypermodels, hypermodel_to_id |-> hypermodel_to_id]

-----------------------------------------------------------------------------
(* AutoModel.fit and GraphAutoModel.build                                  *)

\* The shapes of the arrays handed to fit: the first dimension counts the
\* samples; a target is one-dimensional or has up to MaxColumns columns.
XShapes == {<<Samples, MaxColumns>>}

YShapes == {<<Samples>>} \cup {<<Samples, c>> : c \in 1..MaxColumns}

\* lines 59-61: a one-dimensional target is reshaped to a column.
TargetShape(yshape) == Tail(IF Len(yshape) = 1 THEN Append(yshape, 1) ELSE yshape)

\* lines 56-61; zip stops at the shorter list.
RECURSIVE ZipShapes(_, _, _, _)
ZipShapes(sh, arrays, ns, target) ==
    IF arrays = <<>> \/ ns = <<>> THEN sh
    ELSE ZipShapes([sh EXCEPT ![Head(ns)] =
                        Some(IF target THEN TargetShape(Head(arrays)) ELSE Tail(Head(arrays)))],
                   Tail(arrays), Tail(ns), target)

\* real_nodes[self.node_to_id[n]] finds a concrete representation.
Recorded(real_nodes, n) == n \in DOMAIN node_to_id /\ node_to_id[n] \in real_nodes

\* lines 100-107: b = [real_nodes, built, key_error]; real_nodes is the set of
\* identifiers that have a concrete representation.
RECURSIVE BuildLoop(_, _)
BuildLoop(b, hs) ==
    IF hs = <<>> THEN b
    ELSE LET hypermodel == Head(hs)
             gathered == \A i \in DOMAIN blocks[hypermodel].inputs :
                            Recorded(b.real_nodes, blocks[hypermodel].inputs[i])
         IN  IF ~gathered THEN [b EXCEPT !.key_error = TRUE]
             ELSE BuildLoop([b EXCEPT !.built = Append(@, hypermodel),
                                      !.real_nodes = @ \cup {node_to_id[n] :
                                                       n \in Range(blocks[hypermodel].outputs)}],
                            Tail(hs))

\* lines 96-109
build ==
    LET b == BuildLoop([real_nodes |-> {node_to_id[n] : n \in Range(inputs)},
                        built |-> <<>>, key_error |-> FALSE], hypermodels)
        assembled == \A n \in Range(inputs) \cup Range(outputs) : Recorded(b.real_nodes, n)
    IN  [built |-> b.built,
         result |-> IF b.key_error \/ ~assembled THEN "key_error" ELSE "ok"]

-----------------------------------------------------------------------------
(* The state machine                                                       *)

Init ==
    /\ \E sig \in Signatures :
          \E flat \in FirstAppearance(SeqSum(sig)) :
             /\ WellFormed(flat, sig)
             /\ inputs = Declaration(flat, sig).inputs
             /\ outputs = Declaration(flat, sig).outputs
             /\ blocks = Declaration(flat, sig).blocks
    /\ pc = "declared"
    /\ node_to_id = EmptyMap
    /\ nodes = <<>>
    /\ hypermodels = <<>>
    /\ hypermodel_to_id = EmptyMap
    /\ isNone = {"node_to_id", "nodes", "hypermodels", "hypermodel_to_id"}
    /\ failed = 0
    /\ shape = [n \in Nodes |-> None]
    /\ output_shape = [b \in DOMAIN blocks |-> None]
    /\ prev = <<>>
    /\ fitted = FALSE
    /\ built = <<>>
    /\ build_result = "none"

Apply(r) ==
    /\ pc' = r.pc
    /\ node_to_id' = r.node_to_id
    /\ nodes' = r.nodes
    /\ hypermodels' = r.hypermodels
    /\ hypermodel_to_id' = r.hypermodel_to_id
    /\ isNone' = r.isNone
    /\ failed' = r.failed
    /\ output_shape' = r.output_shape

\* GraphAutoModel.__init__, lines 84-93
Construct ==
    /\ pc = "declared"
    /\ Apply(_build_network)
    /\ UNCHANGED <<inputs, outputs, blocks, shape, prev, fitted, built, build_result>>

\* a further call of _build_network on the constructed object
Resolve ==
    /\ pc = "ready"
    /\ prev' = <<Resolution>>
    /\ Apply(_build_network)
    /\ UNCHANGED <<inputs, outputs, blocks, shape, fitted, built, build_result>>

\* AutoModel.fit, lines 47-64, up to the start of the tuner
Fit ==
    /\ pc = "ready"
    /\ \E x \in [1..Len(inputs) -> XShapes], y \in [1..Len(outputs) -> YShapes] :
          shape' = ZipShapes(ZipShapes(shape, x, inputs, FALSE), y, outputs, TRUE)
    /\ fitted' = TRUE
    /\ UNCHANGED <<inputs, outputs, blocks, pc, node_to_id, nodes, hypermodels,
                   hypermodel_to_id, isNone, failed, output_shape, prev, built, build_result>>

\* one trial of the tuner: GraphAutoModel.build(hp), lines 95-122
Build ==
    /\ pc = "ready"
    /\ fitted
    /\ built' = build.built
    /\ build_result' = build.result
    /\ UNCHANGED <<inputs, outputs, blocks, pc, node_to_id, nodes, hypermodels,
                   hypermodel_to_id, isNone, failed, shape, output_shape, prev, fitted>>

Next == Construct \/ Resolve \/ Fit \/ Build

Spec == Init /\ [][Next]_vars

-----------------------------------------------------------------------------
(* The declared graph, read off the declaration alone.                     *)

\* The nodes one block away from n: the outputs of the blocks consuming n.
Succ(n) == UNION { Range(blocks[b].outputs) : b \in { c \in Blocks : n \in Range(blocks[c].inputs) } }

RECURSIVE Reach(_)
Reach(S) ==
    LET T == S \cup UNION { Succ(n) : n \in S }
    IN  IF T = S THEN S ELSE Reach(T)

ReachableFromInputs == Reach(Range(inputs))

ReachesOutput(n) == Reach({n}) \cap Range(outputs) # {}

\* The nodes on a path from a declared input to a declared output.
OnPath == { n \in ReachableFromInputs : ReachesOutput(n) }

OnCycle(n) == n \in Reach(Succ(n))

HasCycle == \E n \in Nodes : OnCycle(n)

Acyclic == ~HasCycle

CycleFromInput == \E n \in ReachableFromInputs : OnCycle(n)

Producers(n) == { b \in Blocks : n \in Range(blocks[b].outputs) }

Position(hs, b) == CHOOSE i \in DOMAIN hs : hs[i] = b

LacksId(b) == \E n \in Range(blocks[b].inputs) : n \notin DOMAIN node_to_id

\* Scenario A: a single input, a single block, a single output.
ScenarioA ==
    /\ inputs = <<1>>
    /\ outputs = <<2>>
    /\ blocks = <<[inputs |-> <<1>>, outputs |-> <<2>>]>>

-----------------------------------------------------------------------------
(* Properties                                                              *)

\* C1: on an acyclic topology whose declared outputs are all reachable from a
\* declared input, the block order is topological: every block of the order
\* that produces a non-input input node of a block B stands before B.
C1_TopologicalOrder ==
    (pc = "ready" /\ Acyclic /\ Range(outputs) \subseteq ReachableFromInputs) =>
        \A i \in DOMAIN hypermodels :
            \A n \in Range(blocks[hypermodels[i]].inputs) \ Range(inputs) :
                \A p \in Producers(n) \cap Range(hypermodels) :
                    Position(hypermodels, p) < i

\* C2 as claimed: after a successful resolution node_to_id holds exactly the
\* nodes on a path from a declared input to a declared output.
C2_ExactlyOnPath == pc = "ready" => DOMAIN node_to_id = OnPath

\* C2 as amended: after a successful resolution self.nodes holds exactly the
\* nodes on a path from a declared input to a declared output, and node_to_id
\* holds those nodes and every output node of every admitted block.
C2_NodesOnPath ==
    pc = "ready" =>
        /\ Range(nodes) = OnPath
        /\ DOMAIN node_to_id =
              OnPath \cup UNION { Range(blocks[b].outputs) : b \in Range(hypermodels) }

C2_Witness ==
    /\ pc = "ready"
    /\ \E b \in Range(hypermodels) :
          /\ blocks[b].outputs[1] \in OnPath
          /\ Len(blocks[b].outputs) > 1
          /\ blocks[b].outputs[2] \notin OnPath
          /\ blocks[b].outputs[2] \in DOMAIN node_to_id

\* C3 as claimed: every topology that contains a directed cycle ends the
\* construction with the cycle error, and no block order is produced.
C3_AnyCycleRaises ==
    (pc # "declared" /\ HasCycle) => (pc = "cycle" /\ "hypermodels" \in isNone)

\* C3 as amended: every topology with a directed cycle that is reachable from a
\* declared input ends the construction with the cycle error, and no block
\* order is produced.
C3_ReachableCycleRaises ==
    (pc # "declared" /\ CycleFromInput) => (pc = "cycle" /\ "hypermodels" \in isNone)

C3_Witness ==
    /\ pc = "cycle"
    /\ \E b \in Blocks : Range(blocks[b].inputs) \cap Range(blocks[b].outputs) # {}
    /\ \E n \in ReachableFromInputs : OnCycle(n) /\ Cardinality(Reach({n})) > 1

\* C4: on an acyclic topology the construction ends with the disconnected
\* error whenever a declared output is not reachable from any declared input
\* or a declared input has no path to a declared output; after a normal return
\* every declared input and output is a key of node_to_id.
C4_Disconnected ==
    /\ (/\ pc # "declared"
        /\ Acyclic
        /\ \/ \E o \in Range(outputs) : o \notin ReachableFromInputs
           \/ \E n \in Range(inputs) : ~ReachesOutput(n))
       => pc = "disconnected"
    /\ pc = "ready" => Range(inputs) \cup Range(outputs) \subseteq DOMAIN node_to_id

\* Scenario D: two declared inputs, one of them with no path to the output.
C4_Witness ==
    /\ pc = "disconnected"
    /\ Acyclic
    /\ Len(inputs) = 2
    /\ Range(outputs) \subseteq ReachableFromInputs
    /\ ReachesOutput(inputs[1])
    /\ ~ReachesOutput(inputs[2])

\* C5: build(hp) invokes the build operation of every block of the order
\* exactly once, in the order, and every lookup of a concrete input succeeds.
C5_BuildsEachBlockOnce ==
    build_result # "none" => (built = hypermodels /\ build_result = "ok")

\* C6 as claimed: the first declared input has id 0, and scenario A yields
\* node_to_id = {input: 0, output: 1} with block order [Block].
C6_BreadthFirstIds ==
    pc = "ready" =>
        /\ node_to_id[inputs[1]] = 0
        /\ ScenarioA => (node_to_id = (1 :> 0) @@ (2 :> 1) /\ hypermodels = <<1>>)

\* C6 as amended: ids are dense from 0; an on-path node has a larger id than
\* every on-path node produced by a block consuming it (depth-first
\* post-order); a node that is not on a path has a larger id than every
\* on-path node; scenario A yields node_to_id = {output: 0, input: 1} with
\* block order [Block].
C6_PostOrderIds ==
    pc = "ready" =>
        /\ { node_to_id[n] : n \in DOMAIN node_to_id } = 0..(Cardinality(DOMAIN node_to_id) - 1)
        /\ \A n \in OnPath : \A m \in Succ(n) \cap OnPath : node_to_id[m] < node_to_id[n]
        /\ \A n \in OnPath : \A d \in DOMAIN node_to_id \ OnPath : node_to_id[n] < node_to_id[d]
        /\ ScenarioA => (node_to_id = (2 :> 0) @@ (1 :> 1) /\ hypermodels = <<1>>)

C6_Witness == pc = "ready" /\ ScenarioA /\ node_to_id[2] = 0

\* C7: a second run of _build_network on the same topology yields the same
\* node_to_id, nodes, block order and hypermodel_to_id as the run before it.
C7_SecondRunSame == prev # <<>> => (pc = "ready" /\ prev[1] = Resolution)

C7_Witness ==
    /\ prev # <<>>
    /\ fitted
    /\ Len(hypermodels) >= 2
    /\ DOMAIN node_to_id # Range(nodes)

\* C8: a block of the order with an input node that has no identifier ends the
\* construction with the missing-input error naming that block; after a normal
\* return every input node of every block of the order is a key of node_to_id.
C8_MissingInput ==
    "hypermodels" \notin isNone =>
        \A b \in Range(hypermodels) : LacksId(b) => (pc = "missing_input" /\ failed = b)

C8_Witness ==
    /\ pc = "missing_input"
    /\ failed \in Range(hypermodels)
    /\ Len(blocks[failed].inputs) = 2
    /\ blocks[failed].inputs[1] \in DOMAIN node_to_id
    /\ blocks[failed].inputs[2] \notin ReachableFromInputs

\* C9: every block of the order has at least one output node on a path from a
\* declared input to a declared output.
C9_AdmittedBlocksOnPath ==
    pc = "ready" => \A b \in Range(hypermodels) : Range(blocks[b].outputs) \cap OnPath # {}

\* C10: when build is invoked, the output_shape cached on the producing block
\* of every declared output is that output node's current shape.
C10_CachedShapeCurrent ==
    build_result # "none" =>
        \A i \in DOMAIN outputs :
            output_shape[in_hypermodels(outputs[i])[1]] = shape[outputs[i]]

====
